---- MODULE Spec2Model ----
(***************************************************************************)
(* The character-device IO subsystem of xmega_io.c (TinyG b119): the USB   *)
(* device control block fd_usb, its interrupt-fed circular receive buffer, *)
(* the byte reader with its CPU sleep, and the size/line/string read and   *)
(* write loops behind open/close/control/read/write/getc/putc.             *)
(*                                                                         *)
(* The foreground is one thread of control whose position is pc; the       *)
(* receive interrupt is an action that can run between any two foreground  *)
(* steps.  A foreground step holds at most one access to the memory the    *)
(* interrupt shares with it (rx_buf_head, rx_buf_tail, rx_buf) or the      *)
(* sleep instruction.                                                      *)
(***************************************************************************)
EXTENDS Integers, Sequences, FiniteSets, TLC

\* ---------------------------------------------------------------- sizes
\* Ring buffer array size (slots 0..USART_RX_BUFSIZE-1), scaled down.
USART_RX_BUFSIZE == 4
\* Size of the caller's read buffer; the default receive limit is one less.
READ_BUFFER_SIZE == 3

NO_LIMIT == -1
NUL == 0
CR == 13
EOF_CHAR == -1
SIZE_MODE == 0
LINE_MODE == -1
STR_MODE == -2
PSTR_MODE == -3
FD_USB == 1
FD_RS485 == 2
DEV_USARTC0 == 17
DEV_USARTC1 == 18
DEV_USB == 43
DEV_RS485 == 44
IO_BAUD_UNSPECIFIED == 0
IO_BAUD_9600 == 1
IO_BAUD_DEFAULT == 5
IO_BAUD_115200 == 5

\* Signed chars as the reader and the interrupt see them: NUL, a line
\* delimiter, and 0xFF, which as a signed char is -1.
Bytes == {NUL, CR, EOF_CHAR}
Delimiters == {CR, 10, 59}

IO_FLAG_DEFAULT_gm == {"RD", "WR", "RD_BLOCK", "ECHO"}

\* A control word: its baud selector (the low nibble) and its flag bits.
Control(baudsel, bits) == [baud |-> baudsel, bits |-> bits]
NonZero(control) == control.baud # 0 \/ control.bits # {}

\* The caller's buffer: a cell is <<>> until the call stores <<byte>> in it.
EmptyBuf == [k \in 0..(READ_BUFFER_SIZE - 1) |-> <<>>]

\* Bytes the interrupt may still add once more are stored than were fetched.
MaxPending == USART_RX_BUFSIZE

VARIABLES
    rx_buf_head,    \* fd_usb.rx_buf_head, written by the interrupt
    rx_buf_tail,    \* fd_usb.rx_buf_tail, written by the byte reader
    rx_buf,         \* fd_usb.rx_buf
    flags,          \* fd_usb.flags
    baud,           \* fd_usb.baud
    rx_size_max,    \* fd_usb.rx_size_max
    tx_size_max,    \* fd_usb.tx_size_max
    rxc_int,        \* USARTC0.CTRLA holds the receive interrupt level
    errno,          \* the global errno
    pc,             \* where the foreground is
    op,             \* the call in progress, or the last one when pc = "idle"
    ctl,            \* xio_open's control argument
    mode,           \* _read_usb's mode
    size,           \* _read_usb's size (the countdown)
    req,            \* the size the caller passed
    i,              \* _read_usb's buffer index
    buf,            \* the caller's buffer
    ret,            \* the value the last call returned
    tx,             \* bytes written to USARTC0.DATA during this call
    overrun,        \* this call indexed a buffer beyond its end
    dropped,        \* history: the last interrupt found the buffer full
    pending,        \* history: bytes the interrupt stored, not yet fetched
    taken,          \* history: what each fetch of this call had to deliver
    fd_rs485        \* the RS-485 control block: indices, slots, flags and
                    \* whether USARTC1.CTRLA holds the receive interrupt level

vars == <<rx_buf_head, rx_buf_tail, rx_buf, flags, baud, rx_size_max,
          tx_size_max, rxc_int, errno, pc, op, ctl, mode, size, req, i, buf,
          ret, tx, overrun, dropped, pending, taken, fd_rs485>>

ring == <<rx_buf_head, rx_buf_tail, rx_buf>>
dcb == <<flags, baud, rx_size_max, tx_size_max, rxc_int>>
locals == <<ctl, mode, size, req, i>>

\* ------------------------------------------------------------ start-up
\* Static storage is zeroed and xio_init() has run: nothing is open yet.
Init ==
    /\ rx_buf_head = 0
    /\ rx_buf_tail = 0
    /\ rx_buf = [k \in 0..(USART_RX_BUFSIZE - 1) |-> NUL]
    /\ flags = {}
    /\ baud = 0
    /\ rx_size_max = 0
    /\ tx_size_max = 0
    /\ rxc_int = FALSE
    /\ errno = "0"
    /\ pc = "idle"
    /\ op = "init"
    /\ ctl = Control(0, {})
    /\ mode = SIZE_MODE
    /\ size = 0
    /\ req = 0
    /\ i = 0
    /\ buf = EmptyBuf
    /\ ret = 0
    /\ tx = <<>>
    /\ overrun = FALSE
    /\ dropped = FALSE
    /\ pending = <<>>
    /\ taken = <<>>
    /\ fd_rs485 = [rx_buf_head |-> 0, rx_buf_tail |-> 0,
                   rx_buf |-> [k \in 0..(USART_RX_BUFSIZE - 1) |-> NUL],
                   flags |-> {}, rxc_int |-> FALSE]

\* --------------------------------------------------- arithmetic helpers
\* --x on a uint8_t.
Dec8(x) == (x + 255) % 256
\* A countdown that does not count.
NoCountdown(s) == s
\* --size on an int16_t.
Dec16(s) == IF s = -32768 THEN 32767 ELSE s - 1

\* The interrupt's head after "if ((--head) == 0) head = USART_RX_BUFSIZE-1".
HeadAdvance(h) == IF Dec8(h) = 0 THEN USART_RX_BUFSIZE - 1 ELSE Dec8(h)
\* "if (head != tail)": the interrupt stores the byte.
HasRoom(h, t) == h # t
\* The same without the wrap back to 1.
HeadRestoreNoWrap(h) == h + 1
\* Buffer full: "if ((++head) > USART_RX_BUFSIZE-1) head = 1".
HeadRestore(h) == IF h + 1 > USART_RX_BUFSIZE - 1 THEN 1 ELSE h + 1

\* ------------------------------------------------ the receive interrupt
\* An interrupt ends sleep_mode(): the byte reader that slept goes back to
\* its loop test.
Woken(p) ==
    IF p = "rc_asleep" THEN "rc_test"
    ELSE IF p = "rs_asleep" THEN "rs_test"
    ELSE p

\* ISR(USB_RX_ISR_vect) with byte b in USARTC0.DATA.  It runs to its end
\* before the foreground continues, and wakes a sleeping CPU.
USB_RX_ISR(b) ==
    /\ rxc_int
    /\ Len(pending) < MaxPending
    /\ LET h == HeadAdvance(rx_buf_head) IN
        IF HasRoom(h, rx_buf_tail)
        THEN /\ rx_buf_head' = h
             /\ rx_buf' = [rx_buf EXCEPT ![h] = b]
             /\ pending' = Append(pending, b)
             /\ dropped' = FALSE
        ELSE /\ rx_buf_head' = HeadRestore(h)
             /\ dropped' = TRUE
             /\ UNCHANGED <<rx_buf, pending>>
    /\ pc' = Woken(pc)
    /\ UNCHANGED <<rx_buf_tail, dcb, errno, op, locals, buf, ret, tx,
                   overrun, taken, fd_rs485>>

\* ------------------------------------------------ starting and ending a call
Idle == pc = "idle"

\* What a call leaves behind when it returns r with errno e.
Return(o, n, r, e) ==
    /\ pc' = "idle"
    /\ op' = o
    /\ req' = n
    /\ ret' = r
    /\ errno' = e
    /\ mode' = SIZE_MODE
    /\ size' = 0
    /\ i' = 0

\* The same with the errno assignment left out.
ReturnAtOnceNoErrno(o, n, r, e) ==
    /\ Return(o, n, r, errno)
    /\ buf' = EmptyBuf
    /\ tx' = <<>>
    /\ overrun' = FALSE
    /\ taken' = <<>>

\* A call that returns at once, having touched neither buffer nor line.
ReturnAtOnce(o, n, r, e) ==
    /\ Return(o, n, r, e)
    /\ buf' = EmptyBuf
    /\ tx' = <<>>
    /\ overrun' = FALSE
    /\ taken' = <<>>

\* ------------------------------------------------------ _read_usb's loops
Cell(b, k, c) == IF k \in DOMAIN b THEN [b EXCEPT ![k] = <<c>>] ELSE b

\* The outcome of one pass of a read loop: the call returns ret (done), or
\* goes on to read the next byte; err is the errno it assigns, if any.
Pass(done, r, e, b, k, sz, over) ==
    [done |-> done, ret |-> r, err |-> e, buf |-> b, i |-> k, size |-> sz,
     over |-> over]

\* SIZE_MODE: "if ((buf[i++] = _read_char_USART(f)) == -1) return (-1);
\*             if (--size == 0) return (i);"
SizeModePass(sz, k, b, c) ==
    IF k \notin DOMAIN b THEN Pass(TRUE, -1, <<>>, b, k, sz, TRUE)
    ELSE IF c = EOF_CHAR THEN Pass(TRUE, -1, <<>>, Cell(b, k, c), k + 1, sz, FALSE)
    ELSE IF Dec16(sz) = 0
         THEN Pass(TRUE, k + 1, <<>>, Cell(b, k, c), k + 1, Dec16(sz), FALSE)
         ELSE Pass(FALSE, 0, <<>>, Cell(b, k, c), k + 1, Dec16(sz), FALSE)

\* LINE_MODE and STR_MODE differ in the delimiters that end the read and in
\* the errno assigned when the limit is reached.
TextModePass(sz, k, b, c, delims, limit_errno) ==
    LET limited == sz # NO_LIMIT
        sz1 == IF limited THEN Dec16(sz) ELSE sz
    IN  IF c = EOF_CHAR THEN Pass(TRUE, -1, <<>>, b, k, sz, FALSE)
        ELSE IF k \notin DOMAIN b THEN Pass(TRUE, -1, <<>>, b, k, sz, TRUE)
        ELSE IF limited /\ sz1 = 0
             THEN Pass(TRUE, -1, <<limit_errno>>, Cell(Cell(b, k, c), k + 1, NUL),
                       k + 1, sz1, (k + 1) \notin DOMAIN b)
        ELSE IF c \in delims
             THEN Pass(TRUE, k + 1, <<>>, Cell(Cell(b, k, c), k + 1, NUL),
                       k + 1, sz1, (k + 1) \notin DOMAIN b)
        ELSE IF c = NUL
             THEN Pass(TRUE, k + 1, <<>>, Cell(b, k, c), k + 1, sz1, FALSE)
             ELSE Pass(FALSE, 0, <<>>, Cell(b, k, c), k + 1, sz1, FALSE)

LineModePass(sz, k, b, c) == TextModePass(sz, k, b, c, Delimiters, "EMSGSIZE")
StrModePass(sz, k, b, c) == TextModePass(sz, k, b, c, {}, "EFBIG")

ReadPass(m, sz, k, b, c) ==
    IF m = SIZE_MODE THEN SizeModePass(sz, k, b, c)
    ELSE IF m = LINE_MODE THEN LineModePass(sz, k, b, c)
    ELSE StrModePass(sz, k, b, c)

\* _read_char_USART returns c, with errno e, to xio_getc or into _read_usb.
ReturnChar(c, e) ==
    IF op = "getc"
    THEN /\ Return("getc", req, c, e)
         /\ UNCHANGED <<buf, overrun>>
    ELSE LET p == ReadPass(mode, size, i, buf, c)
             e1 == IF p.err = <<>> THEN e ELSE p.err[1]
         IN  /\ buf' = p.buf
             /\ overrun' = p.over
             /\ IF p.done
                THEN Return("read", req, p.ret, e1)
                ELSE /\ pc' = "rc_test"
                     /\ i' = p.i
                     /\ size' = p.size
                     /\ errno' = e1
                     /\ UNCHANGED <<op, req, ret, mode>>

\* ------------------------------------------------------ _read_char_USART
\* The same test made on the read-enable bit.
BlockingTestsReadBit(fl) == "RD" \in fl
BLOCKING_ENABLED(fl) == "RD_BLOCK" \in fl
\* The echo test made on the blocking bit.
EchoTestsBlockingBit(fl) == "RD_BLOCK" \in fl
ECHO_ENABLED(fl) == "ECHO" \in fl

\* The emptiness test met only where both indices are at their start.
BufferEmptyAtStart(h, t) == h = t /\ h = 1
\* "while (f->rx_buf_head == f->rx_buf_tail)": the emptiness test.
BufferEmpty(h, t) == h = t

\* The loop test, and the non-blocking return.
ReadCharTest ==
    /\ pc = "rc_test"
    /\ IF BufferEmpty(rx_buf_head, rx_buf_tail)
       THEN IF ~BLOCKING_ENABLED(flags)
            THEN ReturnChar(EOF_CHAR, "EAGAIN")
            ELSE /\ pc' = "rc_sleep"
                 /\ UNCHANGED <<errno, op, req, ret, mode, size, i, buf, overrun>>
       ELSE /\ pc' = "rc_dec"
            /\ UNCHANGED <<errno, op, req, ret, mode, size, i, buf, overrun>>
    /\ UNCHANGED <<fd_rs485, dropped, ring, dcb, ctl, tx, pending, taken>>

\* sleep_mode(): the CPU stops until an interrupt.
ReadCharSleep ==
    /\ pc = "rc_sleep"
    /\ pc' = "rc_asleep"
    /\ UNCHANGED <<fd_rs485, dropped, ring, dcb, errno, op, locals, buf, ret, tx, overrun,
                   pending, taken>>

\* "--(f->rx_buf_tail)": the decremented tail is stored.
ReadCharDec ==
    /\ pc = "rc_dec"
    /\ rx_buf_tail' = Dec8(rx_buf_tail)
    /\ pc' = IF Dec8(rx_buf_tail) = 0 THEN "rc_wrap" ELSE "rc_fetch"
    /\ UNCHANGED <<fd_rs485, dropped, rx_buf_head, rx_buf, dcb, errno, op, locals, buf, ret, tx,
                   overrun, pending, taken>>

\* The tail a wrap stores: "fd_usb.rx_buf_tail = USART_RX_BUFSIZE-1".
TailWrap == USART_RX_BUFSIZE - 1

ReadCharWrap ==
    /\ pc = "rc_wrap"
    /\ rx_buf_tail' = TailWrap
    /\ pc' = "rc_fetch"
    /\ UNCHANGED <<fd_rs485, dropped, rx_buf_head, rx_buf, dcb, errno, op, locals, buf, ret, tx,
                   overrun, pending, taken>>

\* "char c = f->rx_buf[f->rx_buf_tail]", the echo, and the return.
Fetched(b, t) == b[t]

ReadCharFetch ==
    /\ pc = "rc_fetch"
    /\ LET c == Fetched(rx_buf, rx_buf_tail) IN
        /\ tx' = IF ECHO_ENABLED(flags) THEN Append(tx, c) ELSE tx
        /\ ReturnChar(c, errno)
    /\ taken' = Append(taken, IF pending = <<>> THEN <<>> ELSE <<Head(pending)>>)
    /\ pending' = IF pending = <<>> THEN <<>> ELSE Tail(pending)
    /\ UNCHANGED <<fd_rs485, dropped, ring, dcb, ctl>>

\* --------------------------------------------------- xio_getc, xio_read
xio_getc(fd) ==
    /\ Idle
    /\ IF fd = FD_USB
       THEN /\ pc' = "rc_test"
            /\ op' = "getc"
            /\ req' = 0
            /\ buf' = EmptyBuf
            /\ tx' = <<>>
            /\ overrun' = FALSE
            /\ taken' = <<>>
            /\ UNCHANGED <<errno, ret, mode, size, i>>
       ELSE ReturnAtOnce("getc", 0, EOF_CHAR, "EBADF")
    /\ UNCHANGED <<fd_rs485, dropped, ring, dcb, ctl, pending>>

\* The same without the test for a request of 0.
ReadWithoutZeroTest(fd, n) ==
    /\ Idle
    /\ IF fd # FD_USB THEN ReturnAtOnce("read", n, -1, "EBADF")
       ELSE IF n > rx_size_max THEN ReturnAtOnce("read", n, -1, "EFBIG")
       ELSE IF n < STR_MODE THEN ReturnAtOnce("read", n, -1, "EINVAL")
       ELSE /\ pc' = "rc_test"
            /\ op' = "read"
            /\ req' = n
            /\ mode' = IF n > 0 THEN SIZE_MODE ELSE n
            /\ size' = IF n > 0 THEN n ELSE rx_size_max
            /\ i' = 0
            /\ buf' = EmptyBuf
            /\ tx' = <<>>
            /\ overrun' = FALSE
            /\ taken' = <<>>
            /\ UNCHANGED <<errno, ret>>
    /\ UNCHANGED <<fd_rs485, dropped, ring, dcb, ctl, pending>>

\* _read_usb up to its first byte.
xio_read(fd, n) ==
    /\ Idle
    /\ IF fd # FD_USB THEN ReturnAtOnce("read", n, -1, "EBADF")
       ELSE IF n = 0 THEN ReturnAtOnce("read", n, 0, errno)
       ELSE IF n > rx_size_max THEN ReturnAtOnce("read", n, -1, "EFBIG")
       ELSE IF n < STR_MODE THEN ReturnAtOnce("read", n, -1, "EINVAL")
       ELSE /\ pc' = "rc_test"
            /\ op' = "read"
            /\ req' = n
            /\ mode' = IF n > 0 THEN SIZE_MODE ELSE n
            /\ size' = IF n > 0 THEN n ELSE rx_size_max
            /\ i' = 0
            /\ buf' = EmptyBuf
            /\ tx' = <<>>
            /\ overrun' = FALSE
            /\ taken' = <<>>
            /\ UNCHANGED <<errno, ret>>
    /\ UNCHANGED <<fd_rs485, dropped, ring, dcb, ctl, pending>>

\* A call on FD_USB other than open reaches f->usart, which is NULL until an
\* open has succeeded; the receive interrupt level is set by that same open.
Opened == rxc_int

\* ------------------------------------------------- _write_char_USART, putc
xio_putc(fd, c) ==
    /\ Idle
    /\ fd = FD_USB => Opened
    /\ IF fd = FD_USB
       THEN /\ Return("putc", 0, c, errno)
            /\ tx' = <<c>>
            /\ buf' = EmptyBuf
            /\ overrun' = FALSE
            /\ taken' = <<>>
       ELSE ReturnAtOnce("putc", 0, EOF_CHAR, "EBADF")
    /\ UNCHANGED <<fd_rs485, dropped, ring, dcb, ctl, pending>>

\* ------------------------------------------------------------ _write_usb
\* What a write loop ends with: the return value, the errno it assigns if
\* any, the bytes it put on the line, and whether it read past the source.
Written(r, e, out, over) == [ret |-> r, err |-> e, tx |-> out, over |-> over]

\* SIZE_MODE: "if (--size == 0) return (i);
\*             if (_write_char_USART(f,buf[i++]) == -1) return (-1);"
RECURSIVE SizeModeWrite(_, _, _, _)
SizeModeWrite(sz, k, src, out) ==
    IF Dec16(sz) = 0 THEN Written(k, <<>>, out, FALSE)
    ELSE IF k >= Len(src) THEN Written(-1, <<>>, out, TRUE)
    ELSE IF src[k + 1] = EOF_CHAR
         THEN Written(-1, <<>>, Append(out, src[k + 1]), FALSE)
         ELSE SizeModeWrite(Dec16(sz), k + 1, src, Append(out, src[k + 1]))

\* LINE_MODE, STR_MODE and PSTR_MODE: the limit test, the NUL test, the
\* write, and in LINE_MODE the delimiter test.
RECURSIVE TextModeWrite(_, _, _, _, _)
TextModeWrite(sz, k, src, out, delims) ==
    LET limited == sz # NO_LIMIT
        sz1 == IF limited THEN Dec16(sz) ELSE sz
    IN  IF limited /\ sz1 = 0 THEN Written(-1, <<"EMSGSIZE">>, out, FALSE)
        ELSE IF k >= Len(src) THEN Written(-1, <<>>, out, TRUE)
        ELSE IF src[k + 1] = NUL THEN Written(k + 1, <<>>, out, FALSE)
        ELSE IF src[k + 1] = EOF_CHAR
             THEN Written(-1, <<>>, Append(out, src[k + 1]), FALSE)
        ELSE IF src[k + 1] \in delims
             THEN Written(k + 1, <<>>, Append(out, src[k + 1]), FALSE)
             ELSE TextModeWrite(sz1, k + 1, src, Append(out, src[k + 1]), delims)

WriteLoop(m, sz, src) ==
    IF m = SIZE_MODE THEN SizeModeWrite(sz, 0, src, <<>>)
    ELSE IF m = LINE_MODE THEN TextModeWrite(sz, 0, src, <<>>, Delimiters)
    ELSE TextModeWrite(sz, 0, src, <<>>, {})

\* The limit _write_usb tests the request against and counts down from.
WriteLimit == rx_size_max

\* xio_write: the transmitter is polled, so the call runs to its end
\* without touching anything the interrupt reads or writes.
xio_write(fd, src, n) ==
    /\ Idle
    /\ fd = FD_USB => Opened
    /\ IF fd # FD_USB THEN ReturnAtOnce("write", n, -1, "EBADF")
       ELSE IF n = 0 THEN ReturnAtOnce("write", n, 0, errno)
       ELSE IF n > WriteLimit THEN ReturnAtOnce("write", n, -1, "EFBIG")
       ELSE IF n < PSTR_MODE THEN ReturnAtOnce("write", n, -1, "EINVAL")
       ELSE LET w == WriteLoop(IF n > 0 THEN SIZE_MODE ELSE n,
                               IF n > 0 THEN n ELSE WriteLimit, src)
            IN  /\ Return("write", n, w.ret, IF w.err = <<>> THEN errno ELSE w.err[1])
                /\ tx' = w.tx
                /\ overrun' = w.over
                /\ buf' = EmptyBuf
                /\ taken' = <<>>
    /\ UNCHANGED <<fd_rs485, dropped, ring, dcb, ctl, pending>>

\* ------------------------------------------------- xio_control, xio_close
SetIf(fl, cond, bit) == IF cond THEN fl \cup {bit} ELSE fl
ClearIf(fl, cond, bit) == IF cond THEN fl \ {bit} ELSE fl

\* The same flag updates followed by xio_open's read-flag slip.
ControlFlagsClearsRead(fl, bits) ==
    LET f1 == SetIf(fl, "ECHO" \in bits, "ECHO")
        f2 == ClearIf(f1, "NOECHO" \in bits, "ECHO")
        f3 == SetIf(f2, "RDBLOCK" \in bits, "RD_BLOCK")
        f4 == ClearIf(f3, "RDNONBLOCK" \in bits, "RD_BLOCK")
    IN  ClearIf(f4, bits # {}, "RD")

\* The flag updates of _control_USART, in the order the code makes them.
ControlFlags(fl, bits) ==
    LET f1 == SetIf(fl, "ECHO" \in bits, "ECHO")
        f2 == ClearIf(f1, "NOECHO" \in bits, "ECHO")
        f3 == SetIf(f2, "RDBLOCK" \in bits, "RD_BLOCK")
        f4 == ClearIf(f3, "RDNONBLOCK" \in bits, "RD_BLOCK")
        f5 == SetIf(f4, "WRBLOCK" \in bits, "WR_BLOCK")
    IN  ClearIf(f5, "WRNONBLOCK" \in bits, "WR_BLOCK")

\* A control that applies the word whatever the handle is.
ControlAnyHandle(fd, control, arg) ==
    /\ Idle
    /\ Opened
    /\ baud' = IF control.baud # IO_BAUD_UNSPECIFIED THEN control.baud ELSE baud
    /\ flags' = ControlFlags(flags, control.bits)
    /\ rx_size_max' = IF "RD_SIZE_MAX" \in control.bits THEN arg ELSE rx_size_max
    /\ tx_size_max' = IF "RD_SIZE_MAX" \notin control.bits
                         /\ "WR_SIZE_MAX" \in control.bits
                      THEN arg ELSE tx_size_max
    /\ ReturnAtOnce("control", 0, 0, errno)
    /\ UNCHANGED <<fd_rs485, dropped, ring, rxc_int, ctl, pending>>

xio_control(fd, control, arg) ==
    /\ Idle
    /\ fd = FD_USB => Opened
    /\ IF fd = FD_USB
       THEN /\ baud' = IF control.baud # IO_BAUD_UNSPECIFIED THEN control.baud ELSE baud
            /\ flags' = ControlFlags(flags, control.bits)
            /\ rx_size_max' = IF "RD_SIZE_MAX" \in control.bits THEN arg ELSE rx_size_max
            /\ tx_size_max' = IF "RD_SIZE_MAX" \notin control.bits
                                 /\ "WR_SIZE_MAX" \in control.bits
                              THEN arg ELSE tx_size_max
            /\ ReturnAtOnce("control", 0, 0, errno)
       ELSE /\ ReturnAtOnce("control", 0, -1, "ENODEV")
            /\ UNCHANGED <<flags, baud, rx_size_max, tx_size_max>>
    /\ UNCHANGED <<fd_rs485, dropped, ring, rxc_int, ctl, pending>>

\* A close that switches the receive interrupt off.
CloseDisablesReceive(fd) ==
    /\ Idle
    /\ ReturnAtOnce("close", 0, 0, errno)
    /\ rxc_int' = FALSE
    /\ UNCHANGED <<fd_rs485, dropped, ring, flags, baud, rx_size_max, tx_size_max, ctl,
                   pending>>

xio_close(fd) ==
    /\ Idle
    /\ ReturnAtOnce("close", 0, 0, errno)
    /\ UNCHANGED <<fd_rs485, dropped, ring, dcb, ctl, pending>>

\* ------------------------------------------------ xio_open, _open_USART
\* The flags _open_USART leaves: the defaults less what the control word
\* clears ("else if (control && IO_RDONLY)" tests the word for non-zero).
OpenFlags(control) ==
    LET f1 == IF "RDONLY" \in control.bits THEN IO_FLAG_DEFAULT_gm \ {"WR"}
              ELSE IF NonZero(control) THEN IO_FLAG_DEFAULT_gm \ {"RD"}
              ELSE IO_FLAG_DEFAULT_gm
        f2 == ClearIf(f1, "NOECHO" \in control.bits, "ECHO")
    IN  ClearIf(f2, "RDNONBLOCK" \in control.bits, "RD_BLOCK")

OpenConflict(control) == {"RDONLY", "WRONLY"} \subseteq control.bits

\* What _open_usb returns after _open_USART has failed: it holds the -1 in
\* a uint8_t, finds 255 # -1, and returns the fd field of fd_ptrs[255].
WildReturns == {-1, 0, FD_USB}

\* The same with the raw UART under the USB device let through.
OpensUsbOrItsUart(dev) == dev \in {DEV_USB, DEV_USARTC0}
\* xio_open's switch: the one device it hands to an open routine.
OpensUsb(dev) == dev = DEV_USB

\* xio_open up to "f->rx_buf_head = 1".
xio_open(dev, control) ==
    /\ Idle
    /\ IF OpensUsb(dev)
       THEN /\ pc' = "open_tail"
            /\ op' = "open"
            /\ ctl' = control
            /\ rx_buf_head' = 1
            /\ pending' = <<>>
            /\ buf' = EmptyBuf
            /\ tx' = <<>>
            /\ overrun' = FALSE
            /\ taken' = <<>>
            /\ UNCHANGED <<errno, ret, mode, size, req, i>>
       ELSE /\ ReturnAtOnce("open", 0, -1, "ENODEV")
            /\ UNCHANGED <<rx_buf_head, pending, ctl>>
    /\ UNCHANGED <<fd_rs485, dropped, rx_buf_tail, rx_buf, dcb>>

\* The receive interrupt level set where the tail should be reset.
OpenTailEnablesFirst ==
    /\ pc = "open_tail"
    /\ rxc_int' = TRUE
    /\ pc' = "open_rest"
    /\ UNCHANGED <<fd_rs485, dropped, ring, flags, baud, rx_size_max,
                   tx_size_max, errno, op, locals, buf, ret, tx, overrun,
                   pending, taken>>

\* "f->rx_buf_tail = 1".
OpenTail ==
    /\ pc = "open_tail"
    /\ rx_buf_tail' = 1
    /\ pc' = "open_rest"
    /\ UNCHANGED <<fd_rs485, dropped, rx_buf_head, rx_buf, dcb, errno, op, locals, buf, ret, tx,
                   overrun, pending, taken>>

\* The size limits, the flag check, the flags, the baud rate, the receive
\* interrupt level, and the return.
OpenRest ==
    /\ pc = "open_rest"
    /\ rx_size_max' = READ_BUFFER_SIZE - 1
    /\ tx_size_max' = NO_LIMIT
    /\ IF OpenConflict(ctl)
       THEN /\ \E r \in WildReturns : Return("open", 0, r, "EINVAL")
            /\ UNCHANGED <<flags, baud, rxc_int>>
       ELSE /\ flags' = OpenFlags(ctl)
            /\ baud' = IF ctl.baud = IO_BAUD_UNSPECIFIED THEN IO_BAUD_DEFAULT ELSE ctl.baud
            /\ rxc_int' = TRUE
            /\ Return("open", 0, FD_USB, errno)
    /\ UNCHANGED <<fd_rs485, dropped, ring, ctl, buf, tx, overrun, pending, taken>>

\* -------------------------------------------------- the RS-485 device
\* Everything of the model that is not in the RS-485 control block.
usb == <<ring, dcb, errno, pc, op, locals, buf, ret, tx, overrun, dropped,
         pending, taken>>

\* _open_USART(DEV_USARTC1, control), the call an RS-485 open makes:
\* fdes[DEV_USARTC1] is 2 and fd_ptrs[2] is &fd_rs485.  It is taken in
\* one step: USARTC1's interrupt is not enabled before its last line.
OpenUSARTC1(control) ==
    /\ Idle
    /\ ~fd_rs485.rxc_int
    /\ ~OpenConflict(control)
    /\ fd_rs485' = [fd_rs485 EXCEPT !.rx_buf_head = 1, !.rx_buf_tail = 1,
                                    !.flags = OpenFlags(control),
                                    !.rxc_int = TRUE]
    /\ UNCHANGED usb

\* ISR(USARTC1_RXC_vect) with byte b in USARTC1.DATA.
RS485_RX_ISR(b) ==
    /\ fd_rs485.rxc_int
    /\ LET h == HeadAdvance(fd_rs485.rx_buf_head) IN
        fd_rs485' = IF HasRoom(h, fd_rs485.rx_buf_tail)
                    THEN [fd_rs485 EXCEPT !.rx_buf_head = h, !.rx_buf[h] = b]
                    ELSE [fd_rs485 EXCEPT !.rx_buf_head = HeadRestore(h)]
    /\ pc' = Woken(pc)
    /\ UNCHANGED <<ring, dcb, errno, op, locals, buf, ret, tx, overrun,
                   dropped, pending, taken>>

\* The tails from which a call of the byte reader on fd_rs485 is followed.
TailInRange(t) == t \in 1..(USART_RX_BUFSIZE - 1)

\* _read_char_USART(&fd_rs485) is called.
ReadCharUSARTC1 ==
    /\ Idle
    /\ fd_rs485.rxc_int
    /\ TailInRange(fd_rs485.rx_buf_tail)
    /\ pc' = "rs_test"
    /\ op' = "getc485"
    /\ req' = 0
    /\ buf' = EmptyBuf
    /\ tx' = <<>>
    /\ overrun' = FALSE
    /\ taken' = <<>>
    /\ UNCHANGED <<fd_rs485, dropped, ring, dcb, ctl, pending, errno, ret,
                   mode, size, i>>

\* Its loop test and non-blocking return, on fd_rs485's indices and flags.
Rs485Test ==
    /\ pc = "rs_test"
    /\ IF BufferEmpty(fd_rs485.rx_buf_head, fd_rs485.rx_buf_tail)
       THEN IF ~BLOCKING_ENABLED(fd_rs485.flags)
            THEN Return("getc485", req, EOF_CHAR, "EAGAIN")
            ELSE /\ pc' = "rs_sleep"
                 /\ UNCHANGED <<errno, op, req, ret, mode, size, i>>
       ELSE /\ pc' = "rs_dec"
            /\ UNCHANGED <<errno, op, req, ret, mode, size, i>>
    /\ UNCHANGED <<fd_rs485, dropped, ring, dcb, ctl, buf, tx, overrun,
                   pending, taken>>

Rs485Sleep ==
    /\ pc = "rs_sleep"
    /\ pc' = "rs_asleep"
    /\ UNCHANGED <<fd_rs485, dropped, ring, dcb, errno, op, locals, buf, ret,
                   tx, overrun, pending, taken>>

\* "--(f->rx_buf_tail)" with f = &fd_rs485.
Rs485Dec ==
    /\ pc = "rs_dec"
    /\ fd_rs485' = [fd_rs485 EXCEPT !.rx_buf_tail = Dec8(@)]
    /\ pc' = IF Dec8(fd_rs485.rx_buf_tail) = 0 THEN "rs_wrap" ELSE "rs_fetch"
    /\ UNCHANGED <<dropped, ring, dcb, errno, op, locals, buf, ret, tx,
                   overrun, pending, taken>>

\* The wrap names fd_usb whatever f is:
\* "fd_usb.rx_buf_tail = USART_RX_BUFSIZE-1".
Rs485Wrap ==
    /\ pc = "rs_wrap"
    /\ rx_buf_tail' = TailWrap
    /\ pc' = "rs_fetch"
    /\ UNCHANGED <<fd_rs485, dropped, rx_buf_head, rx_buf, dcb, errno, op,
                   locals, buf, ret, tx, overrun, pending, taken>>

\* "char c = f->rx_buf[f->rx_buf_tail]", the echo to the USB console, and
\* the return.
Rs485Fetch ==
    /\ pc = "rs_fetch"
    /\ LET c == Fetched(fd_rs485.rx_buf, fd_rs485.rx_buf_tail) IN
        /\ tx' = IF ECHO_ENABLED(fd_rs485.flags) THEN Append(tx, c) ELSE tx
        /\ Return("getc485", req, c, errno)
    /\ UNCHANGED <<fd_rs485, dropped, ring, dcb, ctl, buf, overrun, pending,
                   taken>>

\* ------------------------------------------------------ specifications
\* The foreground's steps inside a call.
Foreground ==
    \/ ReadCharTest
    \/ ReadCharSleep
    \/ ReadCharDec
    \/ ReadCharWrap
    \/ ReadCharFetch
    \/ OpenTail
    \/ OpenRest

OpenControls ==
    {Control(IO_BAUD_UNSPECIFIED, {}), Control(IO_BAUD_UNSPECIFIED, {"RDNONBLOCK"})}
BlockingControls ==
    {Control(IO_BAUD_UNSPECIFIED, {"RDBLOCK"}),
     Control(IO_BAUD_UNSPECIFIED, {"RDNONBLOCK"})}
ReadSizes == {1, READ_BUFFER_SIZE - 1, READ_BUFFER_SIZE}

\* The receive path: open, the interrupt, getc and sized reads, with read
\* blocking switched on and off.
Next ==
    \/ \E b \in Bytes : USB_RX_ISR(b)
    \/ Foreground
    \/ \E c \in OpenControls : xio_open(DEV_USB, c)
    \/ \E c \in BlockingControls : xio_control(FD_USB, c, 0)
    \/ (Opened /\ xio_getc(FD_USB))
    \/ \E n \in ReadSizes : (Opened /\ xio_read(FD_USB, n))

Spec == Init /\ [][Next]_vars

\* The same, with the foreground running whenever it can: the CPU executes
\* the foreground's next instruction unless it is asleep.
SpecFair == Spec /\ WF_vars(Foreground)

\* The bytes a caller hands to write and putc, and the buffers it passes.
WriteBytes == {NUL, CR, 65}
Sources ==
    UNION {[1..len -> WriteBytes] : len \in 1..(READ_BUFFER_SIZE - 1)}
WriteSizes == (PSTR_MODE - 1)..READ_BUFFER_SIZE

\* The size limits a caller configures: "1-32767, NO_LIMIT".
Limits == {1, READ_BUFFER_SIZE - 1, NO_LIMIT}
SizeControls ==
    {Control(IO_BAUD_UNSPECIFIED, {"RD_SIZE_MAX"}),
     Control(IO_BAUD_UNSPECIFIED, {"WR_SIZE_MAX"})}
\* Read requests _read_usb refuses under every one of those limits.
RefusedReadSizes == {PSTR_MODE - 1, PSTR_MODE, READ_BUFFER_SIZE}

\* The transmit path: open, the size limits, write in every mode, putc and
\* close, with the interrupt filling the ring buffer meanwhile and the
\* read requests that are refused before a byte is fetched.
NextWrite ==
    \/ xio_open(DEV_USB, Control(IO_BAUD_UNSPECIFIED, {}))
    \/ OpenTail
    \/ OpenRest
    \/ \E b \in {CR} : USB_RX_ISR(b)
    \/ \E c \in SizeControls, arg \in Limits : xio_control(FD_USB, c, arg)
    \/ \E src \in Sources, n \in WriteSizes : xio_write(FD_USB, src, n)
    \/ \E n \in RefusedReadSizes : (Opened /\ xio_read(FD_USB, n))
    \/ \E c \in WriteBytes : xio_putc(FD_USB, c)
    \/ (Opened /\ xio_close(FD_USB))

SpecWrite == Init /\ [][NextWrite]_vars

\* The bytes received while lines and strings are read.
TextBytes == {NUL, CR, 65}
TextReadSizes == {LINE_MODE, STR_MODE}

\* Line and string reads: open, the interrupt, reads in LINE_MODE and
\* STR_MODE under the default receive limit or one raised to the size of
\* the caller's buffer, blocking or after blocking is switched off.
NextText ==
    \/ \E b \in TextBytes : USB_RX_ISR(b)
    \/ Foreground
    \/ xio_open(DEV_USB, Control(IO_BAUD_UNSPECIFIED, {}))
    \/ xio_control(FD_USB, Control(IO_BAUD_UNSPECIFIED, {"RD_SIZE_MAX"}),
                   READ_BUFFER_SIZE)
    \/ xio_control(FD_USB, Control(IO_BAUD_UNSPECIFIED, {"RDNONBLOCK"}), 0)
    \/ \E n \in TextReadSizes : (Opened /\ xio_read(FD_USB, n))

SpecText == Init /\ [][NextText]_vars

\* The same reads with every byte arriving between two calls or while the
\* CPU sleeps in a blocking read: the runs in which no interrupt lands
\* inside the byte reader's test, tail update or fetch.
NextTextIdle ==
    \/ \E b \in TextBytes : (pc \in {"idle", "rc_asleep"} /\ USB_RX_ISR(b))
    \/ Foreground
    \/ xio_open(DEV_USB, Control(IO_BAUD_UNSPECIFIED, {}))
    \/ xio_control(FD_USB, Control(IO_BAUD_UNSPECIFIED, {"RD_SIZE_MAX"}),
                   READ_BUFFER_SIZE)
    \/ \E n \in TextReadSizes : (Opened /\ xio_read(FD_USB, n))

SpecTextIdle == Init /\ [][NextTextIdle]_vars

\* The device identifiers a caller passes to open: the null device, the
\* two raw UARTs under the synthetic devices, and the synthetic devices.
Devices == {0, DEV_USARTC0, DEV_USARTC1, DEV_USB, DEV_RS485}
\* Control words for open: a baud selector or none, with the access,
\* echo and blocking bits.
OpenBits ==
    {{}, {"RDONLY"}, {"WRONLY"}, {"RDONLY", "WRONLY"}, {"NOECHO"},
     {"RDNONBLOCK"}}
OpenWords ==
    {Control(b, bits) : b \in {IO_BAUD_UNSPECIFIED, IO_BAUD_9600},
                        bits \in OpenBits}
OpenBytes == {CR}

\* Opening: every device with every control word, again and again, with
\* the interrupt running once an open has enabled it, and getc and putc
\* on whatever the open left.
NextOpen ==
    \/ \E dev \in Devices, c \in OpenWords : xio_open(dev, c)
    \/ Foreground
    \/ \E b \in OpenBytes : USB_RX_ISR(b)
    \/ (Opened /\ xio_getc(FD_USB))
    \/ \E c \in OpenBytes : xio_putc(FD_USB, c)

SpecOpen == Init /\ [][NextOpen]_vars

\* Handles a caller passes: fd is a uint8_t, and only FD_USB is dispatched.
Handles == {0, FD_USB, FD_RS485}
OtherHandles == Handles \ {FD_USB}
\* Control words for xio_control: none, a baud selector alone, each bit
\* alone, each pair of bits that act on the same flag or limit, and
\* everything together.
ControlBitNames ==
    {"ECHO", "NOECHO", "RDBLOCK", "RDNONBLOCK", "WRBLOCK", "WRNONBLOCK",
     "RD_SIZE_MAX", "WR_SIZE_MAX"}
ControlPairs ==
    {{"ECHO", "NOECHO"}, {"RDBLOCK", "RDNONBLOCK"}, {"WRBLOCK", "WRNONBLOCK"},
     {"RD_SIZE_MAX", "WR_SIZE_MAX"}}
ControlWords ==
    {Control(IO_BAUD_UNSPECIFIED, bits) :
        bits \in {x \in SUBSET ControlBitNames : Cardinality(x) <= 1}
                    \cup ControlPairs}
    \cup {Control(IO_BAUD_9600, {}), Control(IO_BAUD_9600, ControlBitNames)}
ControlArgs == {1, NO_LIMIT}
\* The words tried on the handles that are not dispatched: the empty one
\* and the one with everything set.
OtherWords ==
    {Control(IO_BAUD_UNSPECIFIED, {}), Control(IO_BAUD_9600, ControlBitNames)}
ControlBytes == {CR, 65}

\* Control and close: the USB device is opened once, its interrupt fills
\* the ring buffer, and control and close are called on every handle.
NextControl ==
    \/ (~Opened /\ xio_open(DEV_USB, Control(IO_BAUD_UNSPECIFIED, {})))
    \/ OpenTail
    \/ OpenRest
    \/ \E b \in ControlBytes : USB_RX_ISR(b)
    \/ \E c \in ControlWords, arg \in ControlArgs : xio_control(FD_USB, c, arg)
    \/ \E fd \in OtherHandles, c \in OtherWords, arg \in ControlArgs :
          xio_control(fd, c, arg)
    \/ \E fd \in Handles : xio_close(fd)

SpecControl == Init /\ [][NextControl]_vars

\* Dispatch by handle: read, write, getc, putc and control on the handles
\* xio_open never returns, before and after the USB device is opened, its
\* receive limit set and bytes received.
NextHandles ==
    \/ (~Opened /\ xio_open(DEV_USB, Control(IO_BAUD_UNSPECIFIED, {})))
    \/ OpenTail
    \/ OpenRest
    \/ \E b \in ControlBytes : USB_RX_ISR(b)
    \/ \E arg \in ControlArgs :
          xio_control(FD_USB, Control(IO_BAUD_UNSPECIFIED, {"RD_SIZE_MAX"}), arg)
    \/ \E fd \in OtherHandles, c \in OtherWords, arg \in ControlArgs :
          xio_control(fd, c, arg)
    \/ \E fd \in OtherHandles : xio_getc(fd)
    \/ \E fd \in OtherHandles, c \in ControlBytes : xio_putc(fd, c)
    \/ \E fd \in OtherHandles : xio_read(fd, 1)
    \/ \E fd \in OtherHandles, src \in Sources : xio_write(fd, src, Len(src))

SpecHandles == Init /\ [][NextHandles]_vars


\* The bytes received while echo and blocking are switched.
EchoBytes == {CR, 65}
EchoControls ==
    {Control(IO_BAUD_UNSPECIFIED, {bit}) :
        bit \in {"ECHO", "NOECHO", "RDBLOCK", "RDNONBLOCK"}}
EchoReadSizes == {0, 1, READ_BUFFER_SIZE - 1}

\* Echo and blocking: the USB device is opened once, echo and read
\* blocking are switched on and off between calls, and getc, sized reads
\* (the empty request among them) and the empty write run against the
\* interrupt.
NextEcho ==
    \/ (~Opened /\ xio_open(DEV_USB, Control(IO_BAUD_UNSPECIFIED, {})))
    \/ Foreground
    \/ \E b \in EchoBytes : USB_RX_ISR(b)
    \/ \E c \in EchoControls : xio_control(FD_USB, c, 0)
    \/ (Opened /\ xio_getc(FD_USB))
    \/ \E n \in EchoReadSizes : (Opened /\ xio_read(FD_USB, n))
    \/ \E src \in Sources : xio_write(FD_USB, src, 0)

SpecEcho == Init /\ [][NextEcho]_vars

\* The same with every byte arriving between two calls or while the CPU
\* sleeps in a blocking read.
NextEchoIdle ==
    \/ (~Opened /\ xio_open(DEV_USB, Control(IO_BAUD_UNSPECIFIED, {})))
    \/ Foreground
    \/ \E b \in Bytes : (pc \in {"idle", "rc_asleep"} /\ USB_RX_ISR(b))
    \/ \E c \in EchoControls : xio_control(FD_USB, c, 0)
    \/ (Opened /\ xio_getc(FD_USB))
    \/ \E n \in EchoReadSizes : (Opened /\ xio_read(FD_USB, n))

SpecEchoIdle == Init /\ [][NextEchoIdle]_vars

\* The bytes the two lines deliver where both devices run.
DeviceBytes == {CR}

\* Two devices: the USB device and USARTC1 under fd_rs485 are each opened
\* once, both receive interrupts run, and the byte reader is applied to
\* either control block.
NextDevices ==
    \/ (~Opened /\ xio_open(DEV_USB, Control(IO_BAUD_UNSPECIFIED, {})))
    \/ Foreground
    \/ \E c \in OpenControls : OpenUSARTC1(c)
    \/ \E b \in DeviceBytes : USB_RX_ISR(b)
    \/ \E b \in DeviceBytes : RS485_RX_ISR(b)
    \/ (Opened /\ xio_getc(FD_USB))
    \/ ReadCharUSARTC1
    \/ Rs485Test
    \/ Rs485Sleep
    \/ Rs485Dec
    \/ Rs485Wrap
    \/ Rs485Fetch

SpecDevices == Init /\ [][NextDevices]_vars

\* Waking: the USB device is read with getc, blocking switched on and
\* off, while the only RS-485 bytes are those that arrive when the CPU
\* sleeps in the USB byte reader.
NextWake ==
    \/ (~Opened /\ xio_open(DEV_USB, Control(IO_BAUD_UNSPECIFIED, {})))
    \/ Foreground
    \/ OpenUSARTC1(Control(IO_BAUD_UNSPECIFIED, {}))
    \/ \E b \in DeviceBytes : USB_RX_ISR(b)
    \/ \E b \in DeviceBytes : (pc = "rc_asleep" /\ RS485_RX_ISR(b))
    \/ \E c \in BlockingControls : xio_control(FD_USB, c, 0)
    \/ (Opened /\ xio_getc(FD_USB))

SpecWake == Init /\ [][NextWake]_vars

\* ------------------------------------------------------------- claims
\* The byte reader is between its first store to the tail and its fetch.
MidPop == pc \in {"rc_wrap", "rc_fetch"}
\* xio_open has reset the head and not yet the tail.
MidReset == pc = "open_tail"
Settled == Opened /\ ~MidPop /\ ~MidReset

\* C1: every byte a getc returns is the oldest byte the interrupt stored
\* that no earlier getc returned, so the bytes successive getc calls
\* return are the bytes stored, in arrival order, none duplicated, skipped
\* or altered, whatever the interleaving of the interrupt with the read.
C1_GetcFifo ==
    (Idle /\ op = "getc" /\ taken # <<>>) => taken = << <<ret>> >>

\* C2: an interrupt that finds the buffer full (its head, decremented and
\* wrapped, equals the tail) leaves head, tail and every slot as they
\* were, at every head/tail position.
C2_FullInterruptKeepsRing ==
    [][\A b \in Bytes :
          (USB_RX_ISR(b) /\ HeadAdvance(rx_buf_head) = rx_buf_tail)
              => UNCHANGED ring]_vars

\* C2's case at the wrap boundary: the last interrupt found the buffer
\* full with head = 1 and tail = USART_RX_BUFSIZE-1.
C2_Witness ==
    /\ dropped
    /\ rx_buf_head = 1
    /\ rx_buf_tail = USART_RX_BUFSIZE - 1
    /\ Len(pending) = USART_RX_BUFSIZE - 2

\* C3: the foreground is never asleep in a blocking read while the ring
\* buffer holds a byte.
C3_NoSleepWithData ==
    pc = "rc_asleep" => BufferEmpty(rx_buf_head, rx_buf_tail)

\* C4: a blocking getc that has a byte in the ring buffer returns, with
\* no further interrupt, when the foreground is scheduled fairly.
C4_BlockedGetcReturns ==
    (op = "getc" /\ ~Idle /\ BLOCKING_ENABLED(flags)
        /\ ~BufferEmpty(rx_buf_head, rx_buf_tail)) ~> Idle

\* C5: with read blocking disabled, the byte reader on an empty ring
\* buffer returns -1 with errno EAGAIN to getc or read in that same step,
\* leaves head, tail and slots unchanged, and never reaches the sleep.
C5_NonBlockingEmpty ==
    /\ [](pc \in {"rc_sleep", "rc_asleep"} => "RD_BLOCK" \in flags)
    /\ [][(ReadCharTest /\ "RD_BLOCK" \notin flags /\ rx_buf_head = rx_buf_tail)
          => (Idle' /\ ret' = -1 /\ errno' = "EAGAIN" /\ UNCHANGED ring
              /\ UNCHANGED pending)]_vars

\* C5's case: a non-blocking read that needed a byte, found the buffer
\* empty and returned would-block without fetching anything.
C5_Witness ==
    /\ Idle
    /\ op = "read"
    /\ ret = -1
    /\ errno = "EAGAIN"
    /\ taken = <<>>
    /\ "RD_BLOCK" \notin flags

\* C6: after open, no stored byte is unread if and only if head = tail.
C6_EmptyIffHeadIsTail ==
    Settled => ((pending = <<>>) <=> (rx_buf_head = rx_buf_tail))

\* C7: the ring buffer never holds more than USART_RX_BUFSIZE-2 unread
\* bytes.
C7_AtMostCMinus2 ==
    Settled => Len(pending) <= USART_RX_BUFSIZE - 2

\* C8: after open, head and tail are in 1..USART_RX_BUFSIZE-1 wherever
\* the interrupt or the foreground can observe them.
C8_IndicesInRange ==
    Opened => /\ rx_buf_head \in 1..(USART_RX_BUFSIZE - 1)
              /\ rx_buf_tail \in 1..(USART_RX_BUFSIZE - 1)

\* C9: a blocking sized read of n bytes, 1 <= n <= rx_size_max, none of
\* them -1, returns n with buf[0..n-1] the n oldest unread bytes in
\* arrival order.
C9_SizedRead ==
    (/\ Idle /\ op = "read" /\ req \in 1..rx_size_max
     /\ BLOCKING_ENABLED(flags)
     /\ \A k \in 1..Len(taken) : taken[k] # <<EOF_CHAR>>
     /\ \A k \in DOMAIN buf : buf[k] # <<EOF_CHAR>>)
    => /\ ret = req
       /\ Len(taken) = req
       /\ \A k \in 0..(req - 1) : buf[k] = taken[k + 1]

\* C10: a write of n bytes in exact-count mode, n from 1 to the limit the
\* device tests the request against, puts buf[0..n-1] on the line in
\* order and returns n.
C10_ExactCountWrite ==
    [][\A src \in Sources : \A n \in 1..Len(src) :
          (xio_write(FD_USB, src, n) /\ n <= WriteLimit)
              => (ret' = n /\ tx' = SubSeq(src, 1, n))]_vars

\* A request is within limit L: L is NO_LIMIT or the count is at most L.
WithinLimit(k, L) == L = NO_LIMIT \/ k <= L
\* The step returns -1 with errno e and has transferred nothing.
RefusedWith(e) ==
    /\ Idle'
    /\ ret' = -1
    /\ errno' = e
    /\ buf' = EmptyBuf
    /\ tx' = <<>>
    /\ UNCHANGED <<ring, pending>>
\* No line delimiter and no NUL among src[1..k].
PlainUpTo(src, k) == \A j \in 1..k : src[j] \notin (Delimiters \cup {NUL})
\* No NUL among src[1..k].
NoNulUpTo(src, k) == \A j \in 1..k : src[j] # NUL

\* C11: a read whose positive request exceeds the receive limit, and a
\* write whose positive request exceeds the transmit limit, returns -1
\* with errno EFBIG, removes no byte from the ring buffer, transmits
\* nothing and leaves the caller's buffer unwritten.
C11_TooBigRefused ==
    [][/\ \A n \in 1..READ_BUFFER_SIZE :
            (Opened /\ xio_read(FD_USB, n)
                /\ rx_size_max # NO_LIMIT /\ n > rx_size_max)
                => RefusedWith("EFBIG")
       /\ \A src \in Sources : \A n \in 1..READ_BUFFER_SIZE :
            (xio_write(FD_USB, src, n)
                /\ tx_size_max # NO_LIMIT /\ n > tx_size_max)
                => RefusedWith("EFBIG")]_vars

\* C16: a line-mode write whose source has its first delimiter at byte k,
\* no NUL before it and k within the limit, transmits source bytes 1..k
\* and returns k.
C16_LineWrite ==
    [][\A src \in Sources : \A k \in 1..Len(src) :
          (xio_write(FD_USB, src, LINE_MODE)
              /\ src[k] \in Delimiters /\ PlainUpTo(src, k - 1)
              /\ WithinLimit(k, tx_size_max) /\ WithinLimit(k, rx_size_max))
              => (ret' = k /\ tx' = SubSeq(src, 1, k))]_vars

\* C17: a string-mode write of m non-NUL bytes followed by a NUL, m+1
\* within the limit, transmits exactly those m bytes, delimiters among
\* them included, and returns m+1.
C17_StrWrite ==
    [][\A src \in Sources : \A m \in 0..(Len(src) - 1) :
          (xio_write(FD_USB, src, STR_MODE)
              /\ src[m + 1] = NUL /\ NoNulUpTo(src, m)
              /\ WithinLimit(m + 1, tx_size_max)
              /\ WithinLimit(m + 1, rx_size_max))
              => (ret' = m + 1 /\ tx' = SubSeq(src, 1, m))]_vars

\* C18: a line-, string- or program-memory-string-mode write under the
\* finite limit L, whose source has no terminating byte among its first L
\* bytes, returns -1 with errno EMSGSIZE having transmitted exactly the
\* first L bytes.
C18_WriteTruncated ==
    [][\A src \in Sources : \A n \in {LINE_MODE, STR_MODE, PSTR_MODE} :
          (xio_write(FD_USB, src, n)
              /\ tx_size_max \in 1..Len(src) /\ rx_size_max = tx_size_max
              /\ (IF n = LINE_MODE THEN PlainUpTo(src, tx_size_max)
                                   ELSE NoNulUpTo(src, tx_size_max)))
              => (ret' = -1 /\ errno' = "EMSGSIZE"
                  /\ tx' = SubSeq(src, 1, tx_size_max))]_vars

\* C19: the limit of a write is the transmit limit: a positive request
\* is refused with EFBIG when it exceeds the transmit limit and only then,
\* and a line or string write whose source has its terminating byte is
\* not cut short when the transmit limit is NO_LIMIT, whatever the
\* receive limit is.
C19_WriteUsesTxLimit ==
    [][\A src \in Sources : \A n \in WriteSizes :
          xio_write(FD_USB, src, n) =>
              /\ (n > 0 /\ ~WithinLimit(n, tx_size_max)) => RefusedWith("EFBIG")
              /\ (n \in 1..Len(src) /\ WithinLimit(n, tx_size_max)) => ret' # -1
              /\ (n \in {LINE_MODE, STR_MODE, PSTR_MODE}
                    /\ tx_size_max = NO_LIMIT
                    /\ \E k \in 1..Len(src) : src[k] = NUL)
                  => ret' # -1]_vars

\* C20: under every configured limit, a read with a negative request
\* other than -1 and -2, and a write with a negative request other than
\* -1, -2 and -3, returns -1 with errno EINVAL and transfers nothing.
C20_InvalidRequest ==
    [][/\ \A n \in RefusedReadSizes :
            (n < 0 /\ n \notin {LINE_MODE, STR_MODE}
                /\ Opened /\ xio_read(FD_USB, n))
                => RefusedWith("EINVAL")
       /\ \A n \in WriteSizes : \A src \in Sources :
            (n < 0 /\ n \notin {LINE_MODE, STR_MODE, PSTR_MODE}
                /\ xio_write(FD_USB, src, n))
                => RefusedWith("EINVAL")]_vars

\* C20's case: a read in program-memory-string mode was refused as
\* invalid with the receive limit at NO_LIMIT and bytes in the ring buffer.
C20_Witness ==
    /\ Idle
    /\ op = "read"
    /\ req = PSTR_MODE
    /\ ret = -1
    /\ errno = "EINVAL"
    /\ rx_size_max = NO_LIMIT
    /\ pending # <<>>

\* The read has returned: what it fetched is in taken, oldest first.
ReadDone(m) == Idle /\ op = "read" /\ req = m
\* The first k bytes the read had to deliver hold no delimiter and no NUL.
TakenPlainUpTo(k) ==
    /\ k <= Len(taken)
    /\ \A j \in 1..k :
          taken[j] # <<>> /\ taken[j][1] \notin (Delimiters \cup {NUL})
\* The first k bytes the read had to deliver hold no NUL.
TakenNoNulUpTo(k) ==
    /\ k <= Len(taken)
    /\ \A j \in 1..k : taken[j] # <<>> /\ taken[j][1] # NUL
\* buf[0..k-1] holds the first k bytes the read had to deliver.
BufHoldsTaken(k) == \A j \in 0..(k - 1) : buf[j] = taken[j + 1]

\* C12: a line-mode read under the finite receive limit L whose k-th
\* byte, k <= L, is the first delimiter, with no NUL before it, returns
\* k having removed k bytes, with those k bytes in buf[0..k-1] and NUL
\* in buf[k].
C12_LineRead ==
    \A k \in 1..(READ_BUFFER_SIZE - 1) :
        (/\ ReadDone(LINE_MODE)
         /\ k <= rx_size_max
         /\ TakenPlainUpTo(k - 1)
         /\ k <= Len(taken) /\ taken[k] # <<>> /\ taken[k][1] \in Delimiters)
        => /\ ret = k
           /\ Len(taken) = k
           /\ BufHoldsTaken(k)
           /\ buf[k] = <<NUL>>

\* C13: a line-mode read under the finite receive limit L whose first L
\* bytes hold no delimiter and no NUL returns -1 with errno EMSGSIZE
\* having removed exactly L bytes, with those bytes in buf[0..L-1] and
\* NUL in buf[L].
C13_LineReadTruncated ==
    (/\ ReadDone(LINE_MODE)
     /\ rx_size_max \in 1..(READ_BUFFER_SIZE - 1)
     /\ TakenPlainUpTo(rx_size_max))
    => /\ ret = -1
       /\ errno = "EMSGSIZE"
       /\ Len(taken) = rx_size_max
       /\ BufHoldsTaken(rx_size_max)
       /\ buf[rx_size_max] = <<NUL>>

\* C14: a string-mode read whose k-th byte, k below the receive limit,
\* is the first NUL returns k having removed k bytes, with those k bytes,
\* delimiters among them, in buf[0..k-1].
C14_StrRead ==
    \A k \in 1..(READ_BUFFER_SIZE - 1) :
        (/\ ReadDone(STR_MODE)
         /\ k < rx_size_max
         /\ TakenNoNulUpTo(k - 1)
         /\ k <= Len(taken) /\ taken[k] = <<NUL>>)
        => /\ ret = k
           /\ Len(taken) = k
           /\ BufHoldsTaken(k)

\* C15: a string-mode read under the finite receive limit L whose first
\* L bytes hold no NUL returns -1 with errno EMSGSIZE, with those bytes
\* in buf[0..L-1] and NUL in buf[L].
C15_StrReadTruncated ==
    (/\ ReadDone(STR_MODE)
     /\ rx_size_max \in 1..(READ_BUFFER_SIZE - 1)
     /\ TakenNoNulUpTo(rx_size_max))
    => /\ ret = -1
       /\ errno = "EMSGSIZE"
       /\ BufHoldsTaken(rx_size_max)
       /\ buf[rx_size_max] = <<NUL>>

\* The errno values a failed read or getc reports: would-block, too-big,
\* message-too-big and invalid-argument.
ReadErrnos == {"EAGAIN", "EFBIG", "EMSGSIZE", "EINVAL"}

\* C21: a read or getc that has returned -1 leaves errno at one of
\* would-block, too-big, message-too-big or invalid-argument; a received
\* byte, 0xFF included, is data and never ends the call with -1 and an
\* errno the call did not assign.
C21_ReadFailureHasErrno ==
    (Idle /\ op \in {"read", "getc"} /\ ret = -1) => errno \in ReadErrnos

\* C22: open of the USB device with both the read-only and the write-only
\* bit returns -1 with errno EINVAL and leaves the receive interrupt as
\* it was.
C22_ConflictRefused ==
    [][(OpenRest /\ OpenConflict(ctl))
          => (ret' = -1 /\ errno' = "EINVAL" /\ UNCHANGED rxc_int)]_vars

\* C23: a successful open leaves the read flag set unless write-only was
\* asked for and the write flag set unless read-only was asked for, so a
\* control word with neither bit leaves both flags set.
C23_AccessFlags ==
    [][(OpenRest /\ ~OpenConflict(ctl))
          => /\ "WRONLY" \notin ctl.bits => "RD" \in flags'
             /\ "RDONLY" \notin ctl.bits => "WR" \in flags']_vars

\* C24: after an open for reading only, putc returns an error and puts
\* nothing on the line; after an open for writing only, getc returns an
\* error and fetches nothing from the ring buffer.
C24_AccessEnforced ==
    /\ (Idle /\ op = "putc" /\ ctl.bits = {"RDONLY"}) => (ret = -1 /\ tx = <<>>)
    /\ (Idle /\ op = "getc" /\ ctl.bits = {"WRONLY"})
          => (ret = -1 /\ taken = <<>>)

\* C25: open of the RS-485 device with a control word that is not
\* refused returns the RS-485 handle.
C25_OpensRs485 ==
    [][\A c \in OpenWords :
          (xio_open(DEV_RS485, c) /\ ~OpenConflict(c)) => ret' = FD_RS485]_vars

\* C26: every successful open of the USB device returns the handle 1,
\* leaves head = tail = 1 with no unread byte, and leaves the baud index
\* at the control word's selector, or at the index of 115200 when the
\* selector is unspecified.
C26_OpenResets ==
    [][(OpenRest /\ ~OpenConflict(ctl))
          => /\ ret' = FD_USB
             /\ rx_buf_head' = 1 /\ rx_buf_tail' = 1 /\ pending' = <<>>
             /\ baud' = IF ctl.baud = IO_BAUD_UNSPECIFIED
                        THEN IO_BAUD_115200 ELSE ctl.baud]_vars

\* C27: open of a raw UART under a synthetic device, and of every device
\* other than the USB and RS-485 devices, returns -1 with errno ENODEV
\* and changes no device control block, ring buffer or interrupt level.
C27_NoSuchDevice ==
    [][\A dev \in Devices \ {DEV_USB, DEV_RS485} : \A c \in OpenWords :
          (Idle /\ op' = "open" /\ xio_open(dev, c))
              => (Idle' /\ ret' = -1 /\ errno' = "ENODEV"
                  /\ UNCHANGED <<ring, dcb, pending>>)]_vars

\* C27's case: the raw UART under the USB device was refused while the
\* USB device was open with a byte unread.
C27_Witness ==
    /\ Idle
    /\ op = "open"
    /\ ret = -1
    /\ errno = "ENODEV"
    /\ Opened
    /\ pending # <<>>

\* The step is a failed call: it returns -1 with errno e, having changed
\* no ring buffer, flag, baud index, limit or interrupt level, transmitted
\* nothing and written nothing to the caller's buffer.
FailsWith(e) == RefusedWith(e) /\ UNCHANGED dcb

\* C28: read, write, getc, putc and control on a handle that is not a
\* registered open device each return -1 with errno ENODEV and change
\* nothing.
C28_BadHandleNoDevice ==
    [][\A fd \in OtherHandles :
          /\ (Idle /\ op' = "read" /\ xio_read(fd, 1)) => FailsWith("ENODEV")
          /\ (Idle /\ op' = "getc" /\ xio_getc(fd)) => FailsWith("ENODEV")
          /\ \A c \in ControlBytes :
                (Idle /\ op' = "putc" /\ xio_putc(fd, c)) => FailsWith("ENODEV")
          /\ \A src \in Sources :
                (Idle /\ op' = "write" /\ xio_write(fd, src, Len(src)))
                    => FailsWith("ENODEV")
          /\ \A c \in OtherWords, arg \in ControlArgs :
                (Idle /\ op' = "control" /\ xio_control(fd, c, arg))
                    => FailsWith("ENODEV")]_vars

\* C28 as the code has it: on a handle other than the USB handle, read,
\* write, getc and putc return -1 with errno EBADF and control returns
\* -1 with errno ENODEV, and each changes nothing.
C28_BadHandleRefused ==
    [][\A fd \in OtherHandles :
          /\ (Idle /\ op' = "read" /\ xio_read(fd, 1)) => FailsWith("EBADF")
          /\ (Idle /\ op' = "getc" /\ xio_getc(fd)) => FailsWith("EBADF")
          /\ \A c \in ControlBytes :
                (Idle /\ op' = "putc" /\ xio_putc(fd, c)) => FailsWith("EBADF")
          /\ \A src \in Sources :
                (Idle /\ op' = "write" /\ xio_write(fd, src, Len(src)))
                    => FailsWith("EBADF")
          /\ \A c \in OtherWords, arg \in ControlArgs :
                (Idle /\ op' = "control" /\ xio_control(fd, c, arg))
                    => FailsWith("ENODEV")]_vars

\* C28's case: a control on another handle was refused while the USB
\* device was open with a byte unread and its receive limit changed.
C28_Witness ==
    /\ Idle
    /\ op = "control"
    /\ ret = -1
    /\ errno = "ENODEV"
    /\ Opened
    /\ pending # <<>>
    /\ rx_size_max = 1

ModeFlags == {"ECHO", "RD_BLOCK", "WR_BLOCK"}
\* Flag bit is the same before and after the step.
SameFlag(bit) == (bit \in flags') <=> (bit \in flags)

\* C30: control on the USB device, whatever the control word, leaves
\* head, tail, the stored bytes and the unread bytes as they were, and
\* changes nothing but the baud index when a selector is given, the echo
\* and blocking flags the word names, and the size limit the word names.
C30_ControlKeepsRing ==
    [][\A c \in ControlWords, arg \in ControlArgs :
          (Idle /\ op' = "control" /\ xio_control(FD_USB, c, arg))
              => /\ UNCHANGED <<ring, pending, rxc_int>>
                 /\ flags' \ ModeFlags = flags \ ModeFlags
                 /\ c.bits \cap {"ECHO", "NOECHO"} = {} => SameFlag("ECHO")
                 /\ c.bits \cap {"RDBLOCK", "RDNONBLOCK"} = {}
                       => SameFlag("RD_BLOCK")
                 /\ c.bits \cap {"WRBLOCK", "WRNONBLOCK"} = {}
                       => SameFlag("WR_BLOCK")
                 /\ baud' = IF c.baud = IO_BAUD_UNSPECIFIED THEN baud ELSE c.baud
                 /\ "RD_SIZE_MAX" \notin c.bits => UNCHANGED rx_size_max
                 /\ "WR_SIZE_MAX" \notin c.bits => UNCHANGED tx_size_max]_vars

\* C30's case: a control that named every flag returned with two
\* received bytes still unread, in their order of arrival.
C30_Witness ==
    /\ Idle
    /\ op = "control"
    /\ ret = 0
    /\ pending = <<CR, 65>>
    /\ baud = IO_BAUD_9600
    /\ rx_size_max = 1
    /\ "ECHO" \notin flags

\* C31: a read or a write with request 0 returns 0 in the step that calls
\* it (it never waits, even with the ring buffer empty and blocking on)
\* and changes nothing: the ring buffer and the bytes unread in it, the
\* device's settings and errno are as before, no byte is put on the line
\* and no cell of the caller's buffer is written.
C31_ZeroRequest ==
    [][(Idle /\ (xio_read(FD_USB, 0)
                 \/ \E src \in Sources : xio_write(FD_USB, src, 0)))
        => (/\ Idle'
            /\ ret' = 0
            /\ UNCHANGED <<ring, pending, dcb, errno>>
            /\ tx' = <<>>
            /\ taken' = <<>>
            /\ buf' = EmptyBuf)]_vars

\* A read of 0 bytes has returned 0 with the ring buffer empty, blocking
\* enabled and the errno of an earlier failure still in place.
C31_Witness ==
    /\ Idle
    /\ op = "read"
    /\ req = 0
    /\ ret = 0
    /\ Opened
    /\ BufferEmpty(rx_buf_head, rx_buf_tail)
    /\ pending = <<>>
    /\ BLOCKING_ENABLED(flags)
    /\ errno = "EAGAIN"

\* C32: in getc and in a read, the bytes put on the console are, with echo
\* enabled, exactly the bytes fetched from the ring buffer, each once and
\* in the order fetched (the byte getc returns, the bytes a read stores
\* in buf[0], buf[1], ...); with echo disabled nothing is transmitted;
\* a getc that fails for want of a byte fetches and echoes nothing.
C32_EchoesWhatIsRead ==
    (op \in {"getc", "read"} /\ Opened) =>
        /\ Len(tx) = (IF "ECHO" \in flags THEN Len(taken) ELSE 0)
        /\ \A k \in 1..Len(tx) :
              IF op = "read" THEN buf[k - 1] = <<tx[k]>>
              ELSE Idle => tx = <<ret>>
        /\ (Idle /\ op = "getc" /\ errno = "EAGAIN" /\ ret = EOF_CHAR
              /\ ~BLOCKING_ENABLED(flags) /\ taken = <<>>) => tx = <<>>

\* With echo enabled a read has returned two different bytes and both
\* are on the console in the order they were stored.
C32_Witness ==
    /\ Idle
    /\ op = "read"
    /\ ret = READ_BUFFER_SIZE - 1
    /\ "ECHO" \in flags
    /\ tx = <<CR, 65>>
    /\ buf[0] = <<CR>>
    /\ buf[1] = <<65>>

\* What the byte reader and the interrupts may change in a control block.
OnlyTail485 ==
    fd_rs485' = [fd_rs485 EXCEPT !.rx_buf_tail = fd_rs485'.rx_buf_tail]
OneSlot(old, new) ==
    Cardinality({k \in DOMAIN old : new[k] # old[k]}) <= 1
OnlyHeadAndSlot485 ==
    /\ fd_rs485' = [fd_rs485 EXCEPT !.rx_buf_head = fd_rs485'.rx_buf_head,
                                    !.rx_buf = fd_rs485'.rx_buf]
    /\ OneSlot(fd_rs485.rx_buf, fd_rs485'.rx_buf)
ReadCharStep ==
    ReadCharTest \/ ReadCharSleep \/ ReadCharDec \/ ReadCharWrap \/ ReadCharFetch
Rs485Step ==
    Rs485Test \/ Rs485Sleep \/ Rs485Dec \/ Rs485Wrap \/ Rs485Fetch

\* C37: the two devices' ring buffers are apart.  A step of the byte
\* reader on fd_usb changes, of the two rings, fd_usb's tail only; a step
\* of the byte reader on fd_rs485 changes fd_rs485's tail only, and where
\* that tail wraps it is fd_rs485's tail that becomes C-1; each receive
\* interrupt changes its own head and at most one slot of its own buffer.
C37_DevicesApart ==
    [][/\ ReadCharStep => (UNCHANGED <<rx_buf_head, rx_buf, fd_rs485>>)
       /\ Rs485Step => (UNCHANGED ring /\ OnlyTail485)
       /\ (pc = "rs_wrap" /\ Rs485Wrap) => fd_rs485'.rx_buf_tail = TailWrap
       /\ \A b \in DeviceBytes :
             /\ USB_RX_ISR(b) => /\ UNCHANGED <<rx_buf_tail, fd_rs485>>
                                 /\ OneSlot(rx_buf, rx_buf')
             /\ RS485_RX_ISR(b) => (UNCHANGED ring /\ OnlyHeadAndSlot485)]_vars

\* getc is inside the byte reader's waiting loop with blocking enabled
\* and the USB ring buffer empty.
Waiting ==
    /\ op = "getc"
    /\ pc \in {"rc_test", "rc_sleep", "rc_asleep"}
    /\ "RD_BLOCK" \in flags
    /\ rx_buf_head = rx_buf_tail

\* C33: a blocking getc that waits on an empty ring buffer goes on
\* waiting, whatever happens, until the USB receive interrupt stores a
\* byte: no other step ends the call, with a byte or with an error; an
\* RS-485 interrupt that wakes the sleeping CPU stores nothing in the USB
\* buffer and leads back to the loop test, still waiting.
C33_BlockingGetcWaits ==
    [][Waiting =>
        /\ \/ Waiting'
           \/ /\ pc' # "idle"
              /\ \E b \in DeviceBytes :
                    USB_RX_ISR(b) /\ pending' = Append(pending, b)
        /\ (\E b \in DeviceBytes : RS485_RX_ISR(b)) =>
              (Waiting' /\ pc' = Woken(pc) /\ UNCHANGED <<ring, pending>>)]_vars

\* The first getc after open was woken by an RS-485 interrupt (the only
\* steps that store in fd_rs485's buffer are wake-ups of a sleeping USB
\* reader), found the USB buffer still empty, and sleeps again.
C33_Witness ==
    /\ Waiting
    /\ pc = "rc_asleep"
    /\ ret = FD_USB
    /\ pending = <<>>
    /\ fd_rs485.rx_buf_head # fd_rs485.rx_buf_tail

\* A non-blocking read of req bytes is back, and the bytes the ring buffer
\* held when it was called (those it fetched and those still unread) were
\* fewer than req.
ShortOfRequest ==
    /\ Idle
    /\ op = "read"
    /\ Opened
    /\ req > 0
    /\ ~BLOCKING_ENABLED(flags)
    /\ Len(taken) + Len(pending) < req

\* What C34 says of such a read.
ConsumedAll ==
    /\ ret = -1
    /\ errno = "EAGAIN"
    /\ pending = <<>>
    /\ BufferEmpty(rx_buf_head, rx_buf_tail)
    /\ \A k \in 1..Len(taken) : buf[k - 1] = taken[k]

\* C34: when a non-blocking read of n bytes returns and the ring buffer
\* held k < n bytes, it returns -1 with errno EAGAIN, has fetched all k
\* bytes and stored them in order from buf[0], and leaves the ring
\* buffer empty.
C34_PartialReadConsumes ==
    [][(pc # "idle" /\ ShortOfRequest') => ConsumedAll']_vars

\* C35: in a LINE_MODE or STR_MODE read under a finite receive limit L,
\* at every point of the call and however it ends, at most L bytes have
\* been fetched from the ring buffer and no position of the caller's
\* buffer beyond index L has been written.
C35_TextReadWithinLimit ==
    (op = "read" /\ req \in TextReadSizes /\ Opened
        /\ rx_size_max # NO_LIMIT) =>
        /\ Len(taken) <= rx_size_max
        /\ \A k \in DOMAIN buf : buf[k] # <<>> => k <= rx_size_max
        /\ overrun => READ_BUFFER_SIZE <= rx_size_max

\* A line read has ended at its limit: L bytes fetched and stored, the
\* terminator at index L, errno EMSGSIZE.
C35_Witness ==
    /\ Idle
    /\ op = "read"
    /\ req = LINE_MODE
    /\ ret = -1
    /\ errno = "EMSGSIZE"
    /\ rx_size_max = READ_BUFFER_SIZE - 1
    /\ Len(taken) = rx_size_max
    /\ buf[rx_size_max] = <<NUL>>
    /\ buf[rx_size_max - 1] = <<65>>

\* C36: while the receive interrupt is enabled, the head index changes
\* only in a step of the receive interrupt that stores a byte, and the
\* tail index only in the byte reader's decrement and wrap; no step of
\* open, control, close, write or putc changes either.
C36_IndexOwners ==
    [][rxc_int =>
        /\ rx_buf_head' # rx_buf_head =>
              \E b \in Bytes \cup TextBytes :
                  USB_RX_ISR(b) /\ pending' = Append(pending, b)
        /\ rx_buf_tail' # rx_buf_tail => (ReadCharDec \/ ReadCharWrap)]_vars

\* A step of xio_open(DEV_USB, control): its entry with the head reset,
\* the tail reset, or the rest.
OpenStep ==
    \/ (Idle /\ \E c \in OpenWords : xio_open(DEV_USB, c))
    \/ OpenTail
    \/ OpenRest

\* C38: an open of the USB device that is refused for conflicting flags
\* while the device is already open changes, in none of its steps, the
\* head and tail indices, the bytes unread in the ring buffer, the flags
\* or the size limits.
C38_FailedOpenKeepsDevice ==
    [][(Opened /\ op' = "open" /\ OpenConflict(ctl') /\ OpenStep)
          => UNCHANGED <<rx_buf_head, rx_buf_tail, pending, flags,
                         rx_size_max, tx_size_max>>]_vars

\* The slots and index values in use: 1..USART_RX_BUFSIZE-1.
InUse(k) == k \in 1..(USART_RX_BUFSIZE - 1)

\* C39: the step that enables the receive interrupt finds head and tail
\* already set to 1, so every run of the interrupt starts from a head in
\* 1..C-1, never from the 0 of start-up, leaves the head in 1..C-1 and
\* stores in no slot outside 1..C-1.
C39_InterruptAfterReset ==
    [][/\ (~rxc_int /\ rxc_int') => (rx_buf_head = 1 /\ rx_buf_tail = 1)
       /\ \A b \in OpenBytes :
             USB_RX_ISR(b) =>
                 /\ InUse(rx_buf_head)
                 /\ InUse(rx_buf_head')
                 /\ \A k \in DOMAIN rx_buf :
                       rx_buf'[k] # rx_buf[k] => InUse(k)]_vars

\* The first interrupt after the first open has wrapped the head from 1
\* to C-1 and stored its byte there.
C39_Witness ==
    /\ rxc_int
    /\ Idle
    /\ op = "open"
    /\ ret = FD_USB
    /\ rx_buf_head = USART_RX_BUFSIZE - 1
    /\ rx_buf_tail = 1
    /\ pending = <<CR>>
    /\ rx_buf[USART_RX_BUFSIZE - 1] = CR

====
